---------------------------- MODULE Spec2Model ----------------------------
(***************************************************************************)
(* State-machine model of lib/crypto_backend/crypto_openssl.c, the OpenSSL *)
(* backend of cryptsetup's crypto abstraction layer: backend lifecycle,    *)
(* hash and HMAC contexts, the PBKDF dispatcher and the cipher session.    *)
(*                                                                         *)
(* The OpenSSL primitives themselves are outside the file.  Each of them   *)
(* is modelled by an operator named after the library call, taking as      *)
(* extra arguments the outcomes the library decides (whether the call      *)
(* succeeds, what an unspecified buffer holds); the actions draw those     *)
(* outcomes with \E.  A context on which a library call failed is in the   *)
(* state "undef": later calls on it may succeed, and then deliver          *)
(* arbitrary bytes.                                                        *)
(***************************************************************************)
EXTENDS Integers, Sequences, FiniteSets

VARIABLES
    heap,       \* allocations: [live : set of object ids, fault : BOOLEAN]
    hash,       \* the caller's struct crypt_hash handle
    hmac,       \* the caller's struct crypt_hmac handle
    mdcall,     \* the last hash / HMAC call: arguments, return value, buffers
    mdhist,     \* history: bytes accepted since the last successful final,
                \* the key given at init, whether a call reported a failure
    cipher,     \* the caller's struct crypt_cipher handle
    ccall,      \* the last cipher call: arguments, return value, output
    saved,      \* history: the last successful encrypt of this session
    kcall,      \* the last crypt_pbkdf call: arguments, return value, what it called
    crypto_backend_initialised,     \* the static flag
    pc,         \* per thread: where it is in crypt_backend_init
    ran         \* history: runs of openssl_backend_init since the last destroy

mdstate == <<hash, hmac, mdcall, mdhist>>
cstate == <<cipher, ccall, saved>>
bstate == <<crypto_backend_initialised, pc, ran>>
vars == <<heap, mdstate, cstate, kcall, bstate>>

(***************************************************************************)
(* Bounds of the model.                                                    *)
(***************************************************************************)
MaxMsgLen == 2      \* bytes a context absorbs between two finals
MaxChunk == 1       \* bytes of one write
MaxBlocks == 2      \* cipher blocks of one encrypt / decrypt call
NThreads == 3       \* threads calling crypt_backend_init

(***************************************************************************)
(* errno.h and OpenSSL constants.                                          *)
(***************************************************************************)
EINVAL == 22
ENOMEM == 12
ENOTSUP == 95
EVP_MAX_MD_SIZE == 64

NULL == "NULL"

Min(a, b) == IF a < b THEN a ELSE b

(***************************************************************************)
(* Heap: malloc / free / the *_new and *_free calls of the library.        *)
(* free(NULL) and the library's *_free(NULL) do nothing; releasing an      *)
(* object that is not live is a fault (double free).                       *)
(***************************************************************************)
malloc(hp, id, ok) ==
    IF ok THEN [p |-> id, heap |-> [hp EXCEPT !.live = @ \cup {id}]]
    ELSE [p |-> NULL, heap |-> hp]

free(hp, p) ==
    IF p = NULL THEN hp
    ELSE IF p \in hp.live THEN [hp EXCEPT !.live = @ \ {p}]
    ELSE [hp EXCEPT !.fault = TRUE]

(***************************************************************************)
(* Digest registry of the library: EVP_get_digestbyname, EVP_MD_size.      *)
(***************************************************************************)
DigestNames == {"sha1", "sha512"}
Names == DigestNames \cup {"nohash"}

EVP_get_digestbyname(name) == IF name \in DigestNames THEN name ELSE NULL

EVP_MD_size(id) ==
    CASE id = "sha1" -> 20
      [] id = "sha512" -> 64
      [] OTHER -> 0

(***************************************************************************)
(* The digest and MAC functions, as an ideal (collision free on the        *)
(* bounded inputs) function of the absorbed bytes.  Digest bytes are in    *)
(* 1..254, so that no digest byte is zero and none equals the junk byte.   *)
(***************************************************************************)
MsgByte == {0, 1}
Fill == {0, 255}    \* what an unspecified buffer may hold, in every byte

RECURSIVE Code(_)
Code(m) == IF m = <<>> THEN 1 ELSE 2 * Code(SubSeq(m, 1, Len(m) - 1)) + m[Len(m)]

Seed(id) == EVP_MD_size(id)

MdBytes(id, c1, c2) ==
    [i \in 1..EVP_MD_size(id) |->
        (((IF i % 2 = 1 THEN c1 ELSE c2) * 37 + i * 11 + Seed(id)) % 254) + 1]

Digest(id, data) == MdBytes(id, Code(data), Code(data))
Mac(id, key, data) == MdBytes(id, Code(data), Code(key) + 77)

FillBuf(b) == [i \in 1..EVP_MAX_MD_SIZE |-> b]
Store(tmp, d) == [i \in 1..EVP_MAX_MD_SIZE |-> IF i <= Len(d) THEN d[i] ELSE tmp[i]]
IsZero(tmp) == \A i \in 1..Len(tmp) : tmp[i] = 0

(***************************************************************************)
(* EVP_MD_CTX: st is "ready" (initialised, absorbing), "final" (finalised, *)
(* not re-initialised), "undef" (a library call on it failed or was made   *)
(* out of order) or "none".                                                *)
(***************************************************************************)
NoMd == [st |-> "none", type |-> NULL, data |-> <<>>]

EVP_DigestInit_ex(md, type, ok) ==
    IF ok THEN [ret |-> 1, md |-> [st |-> "ready", type |-> type, data |-> <<>>]]
    ELSE [ret |-> 0, md |-> [md EXCEPT !.st = "undef"]]

EVP_DigestUpdate(md, buffer, ok) ==
    IF ~ok THEN [ret |-> 0, md |-> [md EXCEPT !.st = "undef"]]
    ELSE IF md.st = "ready" THEN [ret |-> 1, md |-> [md EXCEPT !.data = @ \o buffer]]
    ELSE [ret |-> 1, md |-> [md EXCEPT !.st = "undef"]]

EVP_DigestFinal_ex(md, type, tmp, junk, ok) ==
    LET size == EVP_MD_size(type)
        junkmd == [i \in 1..size |-> junk]
    IN  IF ~ok THEN [ret |-> 0, md |-> [md EXCEPT !.st = "undef"],
                     tmp |-> Store(tmp, junkmd), len |-> 0]
        ELSE IF md.st = "ready"
        THEN [ret |-> 1, md |-> [md EXCEPT !.st = "final"],
              tmp |-> Store(tmp, Digest(type, md.data)), len |-> size]
        ELSE [ret |-> 1, md |-> [md EXCEPT !.st = "undef"],
              tmp |-> Store(tmp, junkmd), len |-> size]

(***************************************************************************)
(* struct crypt_hash and the hash engine.                                  *)
(***************************************************************************)
NullHash == [p |-> NULL, mdp |-> NULL, md |-> NoMd, hash_id |-> NULL, hash_len |-> 0]

crypt_hash_size(name) ==
    LET hash_id == EVP_get_digestbyname(name)
    IN  IF hash_id = NULL THEN -EINVAL ELSE EVP_MD_size(hash_id)

crypt_hash_init(hp, name, okH, okMd, okInit) ==
    LET a == malloc(hp, "hash", okH)
        b == malloc(a.heap, "hash.md", okMd)
        hash_id == EVP_get_digestbyname(name)
        i == EVP_DigestInit_ex(NoMd, hash_id, okInit)
        undo == free(free(b.heap, b.p), a.p)
    IN  IF a.p = NULL THEN [ret |-> -ENOMEM, ctx |-> NullHash, heap |-> a.heap, bfail |-> FALSE]
        ELSE IF b.p = NULL
        THEN [ret |-> -ENOMEM, ctx |-> NullHash, heap |-> free(b.heap, a.p), bfail |-> FALSE]
        ELSE IF hash_id = NULL
        THEN [ret |-> -EINVAL, ctx |-> NullHash, heap |-> undo, bfail |-> FALSE]
        ELSE IF i.ret # 1
        THEN [ret |-> -EINVAL, ctx |-> NullHash, heap |-> undo, bfail |-> TRUE]
        ELSE [ret |-> 0,
              ctx |-> [p |-> a.p, mdp |-> b.p, md |-> i.md, hash_id |-> hash_id,
                       hash_len |-> EVP_MD_size(hash_id)],
              heap |-> b.heap, bfail |-> FALSE]

(* crypt_hash_restart that reports success without re-initialising. *)
crypt_hash_restart_noreinit(ctx, ok) == [ret |-> 0, ctx |-> ctx]

crypt_hash_restart(ctx, ok) ==
    LET i == EVP_DigestInit_ex(ctx.md, ctx.hash_id, ok)
    IN  [ret |-> IF i.ret # 1 THEN -EINVAL ELSE 0, ctx |-> [ctx EXCEPT !.md = i.md]]

crypt_hash_write(ctx, buffer, ok) ==
    LET u == EVP_DigestUpdate(ctx.md, buffer, ok)
    IN  [ret |-> IF u.ret # 1 THEN -EINVAL ELSE 0, ctx |-> [ctx EXCEPT !.md = u.md],
         bfail |-> u.ret # 1]

(* The result carries, besides the return value and the context, the caller's
   buffer (wrote: whether memcpy ran), the scratch array tmp as it is when the
   call returns, handed: whether the library was given tmp, and bfail: whether
   a library call made by this call failed. *)
crypt_hash_final(ctx, length, garbage, okFinal, okInit) ==
    LET tmp0 == FillBuf(garbage)
        f == EVP_DigestFinal_ex(ctx.md, ctx.hash_id, tmp0, garbage, okFinal)
        c1 == [ctx EXCEPT !.md = f.md]
        r == crypt_hash_restart(c1, okInit)
        copied == SubSeq(f.tmp, 1, length)
    IN  IF length > ctx.hash_len
        THEN [ret |-> -EINVAL, ctx |-> ctx, wrote |-> FALSE, buffer |-> <<>>,
              tmp |-> tmp0, handed |-> FALSE, bfail |-> FALSE]
        ELSE IF f.ret # 1
        THEN [ret |-> -EINVAL, ctx |-> c1, wrote |-> FALSE, buffer |-> <<>>,
              tmp |-> f.tmp, handed |-> TRUE, bfail |-> TRUE]
        ELSE IF f.len < length
        THEN [ret |-> -EINVAL, ctx |-> c1, wrote |-> TRUE, buffer |-> copied,
              tmp |-> FillBuf(0), handed |-> TRUE, bfail |-> FALSE]
        ELSE IF r.ret # 0
        THEN [ret |-> -EINVAL, ctx |-> r.ctx, wrote |-> TRUE, buffer |-> copied,
              tmp |-> FillBuf(0), handed |-> TRUE, bfail |-> TRUE]
        ELSE [ret |-> 0, ctx |-> r.ctx, wrote |-> TRUE, buffer |-> copied,
              tmp |-> FillBuf(0), handed |-> TRUE, bfail |-> FALSE]

crypt_hash_destroy(hp, ctx) == free(free(hp, ctx.mdp), ctx.p)

(***************************************************************************)
(* HMAC_CTX and the HMAC engine.  HMAC_Init_ex with a NULL key re-arms the *)
(* context with the key it already holds.  A context whose keying failed   *)
(* is "unarmed": every later library call on it fails and writes nothing.  *)
(* The library's return values are modelled although the engine drops      *)
(* them.                                                                   *)
(***************************************************************************)
NoHmacMd == [st |-> "none", type |-> NULL, key |-> <<>>, keyed |-> FALSE, data |-> <<>>]

HMAC_Init_ex(md, key, type, ok) ==
    IF key # NULL
    THEN IF ok
         THEN [ret |-> 1, md |-> [st |-> "ready", type |-> type, key |-> key,
                                  keyed |-> TRUE, data |-> <<>>]]
         ELSE [ret |-> 0, md |-> [md EXCEPT !.st = "unarmed", !.keyed = FALSE]]
    ELSE IF ~md.keyed THEN [ret |-> 0, md |-> md]
    ELSE IF ~ok THEN [ret |-> 0, md |-> [md EXCEPT !.st = "undef"]]
    ELSE IF md.st \in {"ready", "final"}
    THEN [ret |-> 1, md |-> [md EXCEPT !.st = "ready", !.type = type, !.data = <<>>]]
    ELSE [ret |-> 1, md |-> [md EXCEPT !.st = "undef"]]

HMAC_Update(md, buffer, ok) ==
    IF ~md.keyed THEN [ret |-> 0, md |-> md]
    ELSE IF ~ok THEN [ret |-> 0, md |-> [md EXCEPT !.st = "undef"]]
    ELSE IF md.st = "ready" THEN [ret |-> 1, md |-> [md EXCEPT !.data = @ \o buffer]]
    ELSE [ret |-> 1, md |-> [md EXCEPT !.st = "undef"]]

HMAC_Final(md, tmp, junk, ok, lenSet) ==
    LET size == EVP_MD_size(md.type)
        junkmd == [i \in 1..size |-> junk]
    IN  IF ~md.keyed THEN [ret |-> 0, md |-> md, tmp |-> tmp, len |-> 0]
        ELSE IF ~ok
        THEN [ret |-> 0, md |-> [md EXCEPT !.st = "undef"], tmp |-> Store(tmp, junkmd),
              len |-> IF lenSet THEN size ELSE 0]
        ELSE IF md.st = "ready"
        THEN [ret |-> 1, md |-> [md EXCEPT !.st = "final"],
              tmp |-> Store(tmp, Mac(md.type, md.key, md.data)), len |-> size]
        ELSE [ret |-> 1, md |-> [md EXCEPT !.st = "undef"], tmp |-> Store(tmp, junkmd),
              len |-> size]

NullHmac == [p |-> NULL, mdp |-> NULL, md |-> NoHmacMd, hash_id |-> NULL, hash_len |-> 0]

crypt_hmac_size(name) == crypt_hash_size(name)

crypt_hmac_init(hp, name, key, okH, okMd, okInit) ==
    LET a == malloc(hp, "hmac", okH)
        b == malloc(a.heap, "hmac.md", okMd)
        hash_id == EVP_get_digestbyname(name)
        i == HMAC_Init_ex([NoHmacMd EXCEPT !.type = hash_id], key, hash_id, okInit)
    IN  IF a.p = NULL THEN [ret |-> -ENOMEM, ctx |-> NullHmac, heap |-> a.heap, bfail |-> FALSE]
        ELSE IF b.p = NULL
        THEN [ret |-> -ENOMEM, ctx |-> NullHmac, heap |-> free(b.heap, a.p), bfail |-> FALSE]
        ELSE IF hash_id = NULL
        THEN [ret |-> -EINVAL, ctx |-> NullHmac, heap |-> free(free(b.heap, b.p), a.p),
              bfail |-> FALSE]
        ELSE [ret |-> 0,
              ctx |-> [p |-> a.p, mdp |-> b.p, md |-> i.md, hash_id |-> hash_id,
                       hash_len |-> EVP_MD_size(hash_id)],
              heap |-> b.heap, bfail |-> i.ret # 1]

crypt_hmac_restart(ctx, ok) ==
    LET i == HMAC_Init_ex(ctx.md, NULL, ctx.hash_id, ok)
    IN  [ctx |-> [ctx EXCEPT !.md = i.md], bfail |-> i.ret # 1]

crypt_hmac_write(ctx, buffer, ok) ==
    LET u == HMAC_Update(ctx.md, buffer, ok)
    IN  [ret |-> 0, ctx |-> [ctx EXCEPT !.md = u.md], bfail |-> u.ret # 1]

(* crypt_hmac_final with the length check off by one (>= for >). *)
crypt_hmac_final_ge(ctx, length, garbage, okFinal, lenSet, okInit) ==
    LET tmp0 == FillBuf(garbage)
        f == HMAC_Final(ctx.md, tmp0, garbage, okFinal, lenSet)
        r == crypt_hmac_restart([ctx EXCEPT !.md = f.md], okInit)
        copied == SubSeq(f.tmp, 1, length)
    IN  IF length >= ctx.hash_len
        THEN [ret |-> -EINVAL, ctx |-> ctx, wrote |-> FALSE, buffer |-> <<>>,
              tmp |-> tmp0, handed |-> FALSE, bfail |-> FALSE]
        ELSE IF f.len < length
        THEN [ret |-> -EINVAL, ctx |-> [ctx EXCEPT !.md = f.md], wrote |-> TRUE,
              buffer |-> copied, tmp |-> FillBuf(0), handed |-> TRUE,
              bfail |-> f.ret # 1]
        ELSE [ret |-> 0, ctx |-> r.ctx, wrote |-> TRUE, buffer |-> copied,
              tmp |-> FillBuf(0), handed |-> TRUE, bfail |-> f.ret # 1 \/ r.bfail]

crypt_hmac_final(ctx, length, garbage, okFinal, lenSet, okInit) ==
    LET tmp0 == FillBuf(garbage)
        f == HMAC_Final(ctx.md, tmp0, garbage, okFinal, lenSet)
        r == crypt_hmac_restart([ctx EXCEPT !.md = f.md], okInit)
        copied == SubSeq(f.tmp, 1, length)
    IN  IF length > ctx.hash_len
        THEN [ret |-> -EINVAL, ctx |-> ctx, wrote |-> FALSE, buffer |-> <<>>,
              tmp |-> tmp0, handed |-> FALSE, bfail |-> FALSE]
        ELSE IF f.len < length
        THEN [ret |-> -EINVAL, ctx |-> [ctx EXCEPT !.md = f.md], wrote |-> TRUE,
              buffer |-> copied, tmp |-> FillBuf(0), handed |-> TRUE,
              bfail |-> f.ret # 1]
        ELSE [ret |-> 0, ctx |-> r.ctx, wrote |-> TRUE, buffer |-> copied,
              tmp |-> FillBuf(0), handed |-> TRUE, bfail |-> f.ret # 1 \/ r.bfail]

crypt_hmac_destroy(hp, ctx) == free(free(hp, ctx.mdp), ctx.p)

(***************************************************************************)
(* The cipher library.  A block is a value of BlockVals; the block cipher  *)
(* is a keyed permutation of BlockVals and the modes are built from it the *)
(* way ECB, CBC and XTS are, with addition modulo the number of block      *)
(* values for XOR.  A context holds the cipher type, the key and the IV    *)
(* register; in CBC the register advances with every block processed.      *)
(***************************************************************************)
BlockVals == {0, 1}
NVals == Cardinality(BlockVals)
Data == UNION {[1..n -> BlockVals] : n \in 1..MaxBlocks}

EVP_aes(bits, mode) == [alg |-> "aes", bits |-> bits, mode |-> mode]
NoType == [alg |-> NULL, bits |-> 0, mode |-> NULL]    \* a NULL EVP_CIPHER pointer
NoVal == 0 - 1                                          \* a NULL key or iv pointer

KeyShift(type, key) == (key + type.bits \div 64) % NVals
EncBlock(type, key, b) == (b + 1 + KeyShift(type, key)) % NVals
DecBlock(type, key, b) == (b + 2 * NVals - 1 - KeyShift(type, key)) % NVals
Tweak(iv, i) == (iv + i) % NVals

RECURSIVE CbcEnc(_, _, _, _)
CbcEnc(type, key, iv, in) ==
    IF in = <<>> THEN <<>>
    ELSE LET c == EncBlock(type, key, (in[1] + iv) % NVals)
         IN  <<c>> \o CbcEnc(type, key, c, Tail(in))

RECURSIVE CbcDec(_, _, _, _)
CbcDec(type, key, iv, in) ==
    IF in = <<>> THEN <<>>
    ELSE <<(DecBlock(type, key, in[1]) + NVals - iv) % NVals>>
         \o CbcDec(type, key, in[1], Tail(in))

Transform(c, in) ==
    CASE c.type.mode = "ecb" ->
           [i \in 1..Len(in) |-> IF c.enc THEN EncBlock(c.type, c.key, in[i])
                                 ELSE DecBlock(c.type, c.key, in[i])]
      [] c.type.mode = "cbc" ->
           IF c.enc THEN CbcEnc(c.type, c.key, c.iv, in)
           ELSE CbcDec(c.type, c.key, c.iv, in)
      [] OTHER ->
           [i \in 1..Len(in) |->
              IF c.enc
              THEN (EncBlock(c.type, c.key, (in[i] + Tweak(c.iv, i)) % NVals)
                    + Tweak(c.iv, i)) % NVals
              ELSE (DecBlock(c.type, c.key, (in[i] + NVals - Tweak(c.iv, i)) % NVals)
                    + NVals - Tweak(c.iv, i)) % NVals]

NextIv(c, in, out) ==
    IF c.type.mode = "cbc" /\ in # <<>>
    THEN (IF c.enc THEN out[Len(out)] ELSE in[Len(in)])
    ELSE c.iv

NewCipherCtx == [st |-> "new", type |-> NoType, key |-> 0, iv |-> 0, enc |-> TRUE, pad |-> TRUE]

(* EVP_EncryptInit_ex / EVP_DecryptInit_ex: a NULL type, key or iv keeps what
   the context holds. *)
EVP_CipherInit_ex(c, type, key, iv, enc, ok) ==
    IF ~ok THEN [ret |-> 0, c |-> [c EXCEPT !.st = "undef"]]
    ELSE [ret |-> 1,
          c |-> [c EXCEPT !.st = IF c.st = "undef" THEN "undef"
                                 ELSE IF type # NoType \/ c.st = "armed" THEN "armed"
                                 ELSE "undef",
                          !.type = IF type # NoType THEN type ELSE @,
                          !.key = IF key # NoVal THEN key ELSE @,
                          !.iv = IF iv # NoVal THEN iv ELSE @,
                          !.enc = enc]]

EVP_EncryptInit_ex(c, type, key, iv, ok) == EVP_CipherInit_ex(c, type, key, iv, TRUE, ok)
EVP_DecryptInit_ex(c, type, key, iv, ok) == EVP_CipherInit_ex(c, type, key, iv, FALSE, ok)

EVP_CIPHER_CTX_set_padding(c, pad, ok) ==
    IF ok THEN [ret |-> 1, c |-> [c EXCEPT !.pad = pad]] ELSE [ret |-> 0, c |-> c]

EVP_CipherUpdate(c, in, ok) ==
    IF ~ok \/ c.st # "armed"
    THEN [ret |-> IF ok THEN 1 ELSE 0, c |-> [c EXCEPT !.st = "undef"], out |-> in]
    ELSE LET out == Transform(c, in)
         IN  [ret |-> 1, c |-> [c EXCEPT !.iv = NextIv(c, in, out)], out |-> out]

EVP_CipherFinal(c, ok) ==
    IF ok THEN [ret |-> 1, c |-> c] ELSE [ret |-> 0, c |-> [c EXCEPT !.st = "undef"]]

(***************************************************************************)
(* struct crypt_cipher and the cipher engine.                              *)
(***************************************************************************)
NullCipher ==
    [p |-> NULL, hd_enc |-> NULL, hd_dec |-> NULL, enc |-> NewCipherCtx, dec |-> NewCipherCtx]

strcmp(a, b) == IF a = b THEN 0 ELSE 1

crypt_cipher_destroy_leak_enc(hp, ctx) ==
    IF ctx.p = NULL THEN hp ELSE free(free(hp, ctx.hd_dec), ctx.p)

crypt_cipher_destroy(hp, ctx) ==
    IF ctx.p = NULL THEN hp
    ELSE free(free(free(hp, ctx.hd_enc), ctx.hd_dec), ctx.p)

(* The selection of the cipher type, with cbc accepting 16 and 32 only. *)
cipher_type_no_192(name, mode, key_length) ==
    IF strcmp(name, "aes") # 0 THEN [ret |-> -ENOTSUP, type |-> NoType]
    ELSE IF strcmp(mode, "xts") = 0
    THEN IF key_length = 32 THEN [ret |-> 0, type |-> EVP_aes(128, "xts")]
         ELSE IF key_length = 64 THEN [ret |-> 0, type |-> EVP_aes(256, "xts")]
         ELSE [ret |-> -EINVAL, type |-> NoType]
    ELSE IF strcmp(mode, "cbc") = 0
    THEN IF key_length = 16 THEN [ret |-> 0, type |-> EVP_aes(128, "cbc")]
         ELSE IF key_length = 32 THEN [ret |-> 0, type |-> EVP_aes(256, "cbc")]
         ELSE [ret |-> -EINVAL, type |-> NoType]
    ELSE IF strcmp(mode, "ecb") = 0
    THEN IF key_length = 16 THEN [ret |-> 0, type |-> EVP_aes(128, "ecb")]
         ELSE IF key_length = 24 THEN [ret |-> 0, type |-> EVP_aes(192, "ecb")]
         ELSE IF key_length = 32 THEN [ret |-> 0, type |-> EVP_aes(256, "ecb")]
         ELSE [ret |-> -EINVAL, type |-> NoType]
    ELSE [ret |-> -ENOTSUP, type |-> NoType]

(* The first part of crypt_cipher_init: the checks of name, mode and key
   length that select the cipher type, with the value returned when none is
   selected. *)
cipher_type(name, mode, key_length) ==
    IF strcmp(name, "aes") # 0 THEN [ret |-> -ENOTSUP, type |-> NoType]
    ELSE IF strcmp(mode, "xts") = 0
    THEN IF key_length = 32 THEN [ret |-> 0, type |-> EVP_aes(128, "xts")]
         ELSE IF key_length = 64 THEN [ret |-> 0, type |-> EVP_aes(256, "xts")]
         ELSE [ret |-> -EINVAL, type |-> NoType]
    ELSE IF strcmp(mode, "cbc") = 0
    THEN IF key_length = 16 THEN [ret |-> 0, type |-> EVP_aes(128, "cbc")]
         ELSE IF key_length = 24 THEN [ret |-> 0, type |-> EVP_aes(192, "cbc")]
         ELSE IF key_length = 32 THEN [ret |-> 0, type |-> EVP_aes(256, "cbc")]
         ELSE [ret |-> -EINVAL, type |-> NoType]
    ELSE IF strcmp(mode, "ecb") = 0
    THEN IF key_length = 16 THEN [ret |-> 0, type |-> EVP_aes(128, "ecb")]
         ELSE IF key_length = 24 THEN [ret |-> 0, type |-> EVP_aes(192, "ecb")]
         ELSE IF key_length = 32 THEN [ret |-> 0, type |-> EVP_aes(256, "ecb")]
         ELSE [ret |-> -EINVAL, type |-> NoType]
    ELSE [ret |-> -ENOTSUP, type |-> NoType]

(* ok is the record of the outcomes the allocator and the library decide:
   h, enc, dec (allocations), einit, dinit (arming with the key), epad, dpad. *)
crypt_cipher_init(hp, name, mode, key, key_length, ok) ==
    LET t == cipher_type(name, mode, key_length)
        a == malloc(hp, "cipher", ok.h)
        e == malloc(a.heap, "cipher.enc", ok.enc)
        d == malloc(e.heap, "cipher.dec", ok.dec)
        h == [p |-> a.p, hd_enc |-> e.p, hd_dec |-> d.p,
              enc |-> NewCipherCtx, dec |-> NewCipherCtx]
        ei == EVP_EncryptInit_ex(h.enc, t.type, key, NoVal, ok.einit)
        di == EVP_DecryptInit_ex(h.dec, t.type, key, NoVal, ok.dinit)
        ep == EVP_CIPHER_CTX_set_padding(ei.c, FALSE, ok.epad)
        dp == EVP_CIPHER_CTX_set_padding(di.c, FALSE, ok.dpad)
        torn == crypt_cipher_destroy(d.heap, h)
    IN  IF t.type = NoType THEN [ret |-> t.ret, ctx |-> NullCipher, heap |-> hp]
        ELSE IF a.p = NULL THEN [ret |-> -ENOMEM, ctx |-> NullCipher, heap |-> a.heap]
        ELSE IF e.p = NULL \/ d.p = NULL
        THEN [ret |-> -EINVAL, ctx |-> NullCipher, heap |-> torn]
        ELSE IF ei.ret # 1 \/ di.ret # 1
        THEN [ret |-> -EINVAL, ctx |-> NullCipher, heap |-> torn]
        ELSE IF ep.ret # 1 \/ dp.ret # 1
        THEN [ret |-> -EINVAL, ctx |-> NullCipher, heap |-> torn]
        ELSE [ret |-> 0, ctx |-> [h EXCEPT !.enc = ep.c, !.dec = dp.c], heap |-> d.heap]

crypt_cipher_encrypt(ctx, in, iv, okInit, okUpdate, okFinal) ==
    LET i == EVP_EncryptInit_ex(ctx.enc, NoType, NoVal, iv, okInit)
        u == EVP_CipherUpdate(i.c, in, okUpdate)
        f == EVP_CipherFinal(u.c, okFinal)
    IN  IF i.ret # 1
        THEN [ret |-> -EINVAL, ctx |-> [ctx EXCEPT !.enc = i.c], wrote |-> FALSE, out |-> <<>>]
        ELSE IF u.ret # 1
        THEN [ret |-> -EINVAL, ctx |-> [ctx EXCEPT !.enc = u.c], wrote |-> FALSE, out |-> <<>>]
        ELSE IF f.ret # 1
        THEN [ret |-> -EINVAL, ctx |-> [ctx EXCEPT !.enc = f.c], wrote |-> TRUE, out |-> u.out]
        ELSE [ret |-> 0, ctx |-> [ctx EXCEPT !.enc = f.c], wrote |-> TRUE, out |-> u.out]

(* crypt_cipher_decrypt that does not load the call's IV into the context. *)
crypt_cipher_decrypt_stale_iv(ctx, in, iv, okInit, okUpdate, okFinal) ==
    LET u == EVP_CipherUpdate(ctx.dec, in, okUpdate)
    IN  [ret |-> IF u.ret # 1 THEN -EINVAL ELSE 0, ctx |-> [ctx EXCEPT !.dec = u.c],
         wrote |-> u.ret = 1, out |-> IF u.ret = 1 THEN u.out ELSE <<>>]

crypt_cipher_decrypt(ctx, in, iv, okInit, okUpdate, okFinal) ==
    LET i == EVP_DecryptInit_ex(ctx.dec, NoType, NoVal, iv, okInit)
        u == EVP_CipherUpdate(i.c, in, okUpdate)
        f == EVP_CipherFinal(u.c, okFinal)
    IN  IF i.ret # 1
        THEN [ret |-> -EINVAL, ctx |-> [ctx EXCEPT !.dec = i.c], wrote |-> FALSE, out |-> <<>>]
        ELSE IF u.ret # 1
        THEN [ret |-> -EINVAL, ctx |-> [ctx EXCEPT !.dec = u.c], wrote |-> FALSE, out |-> <<>>]
        ELSE IF f.ret # 1
        THEN [ret |-> -EINVAL, ctx |-> [ctx EXCEPT !.dec = f.c], wrote |-> TRUE, out |-> u.out]
        ELSE [ret |-> 0, ctx |-> [ctx EXCEPT !.dec = f.c], wrote |-> TRUE, out |-> u.out]


(***************************************************************************)
(* The caller of the hash and HMAC engines.  It holds one context at a     *)
(* time and abandons (only destroys) a context once a call on it reported  *)
(* a backend failure: with an in-range length every reported error is one. *)
(***************************************************************************)
Chunks == UNION {[1..n -> MsgByte] : n \in 0..MaxChunk}
Keys == {<<0>>, <<1, 0>>}
Lengths(n) == {0, 1, n, n + 1}

NoCall ==
    [op |-> "none", ret |-> 0, length |-> 0, wrote |-> FALSE, buffer |-> <<>>,
     tmp |-> FillBuf(0), handed |-> FALSE, bfail |-> FALSE, msg |-> <<>>,
     pre |-> "none", again |-> FALSE]

NoHist == [written |-> <<>>, key |-> <<>>, fatal |-> FALSE]

HashInit ==
    /\ hash.p = NULL /\ hmac.p = NULL
    /\ \E name \in Names, okH \in BOOLEAN, okMd \in BOOLEAN, okInit \in BOOLEAN :
         \E r \in {crypt_hash_init(heap, name, okH, okMd, okInit)} :
             /\ hash' = r.ctx
             /\ heap' = r.heap
             /\ mdcall' = [NoCall EXCEPT !.op = "hash_init", !.ret = r.ret,
                                         !.bfail = r.bfail, !.again = FALSE]
             /\ mdhist' = NoHist
    /\ UNCHANGED <<hmac, cstate, kcall, bstate>>

HashWrite ==
    /\ hash.p # NULL /\ ~mdhist.fatal
    /\ \E buffer \in Chunks, ok \in BOOLEAN :
         /\ Len(mdhist.written) + Len(buffer) <= MaxMsgLen
         /\ \E r \in {crypt_hash_write(hash, buffer, ok)} :
                /\ hash' = r.ctx
                /\ mdcall' = [NoCall EXCEPT !.op = "hash_write", !.ret = r.ret,
                                            !.length = Len(buffer), !.bfail = r.bfail,
                                            !.msg = mdhist.written, !.pre = hash.md.st,
                                            !.again = FALSE]
                /\ mdhist' = [mdhist EXCEPT
                                !.written = IF r.ret = 0 THEN @ \o buffer ELSE @,
                                !.fatal = @ \/ r.ret # 0]
    /\ UNCHANGED <<heap, hmac, cstate, kcall, bstate>>

HashFinal ==
    /\ hash.p # NULL /\ ~mdhist.fatal
    /\ \E length \in Lengths(hash.hash_len), garbage \in Fill,
          okFinal \in BOOLEAN, okInit \in BOOLEAN :
         \E r \in {crypt_hash_final(hash, length, garbage, okFinal, okInit)} :
             /\ hash' = r.ctx
             /\ mdcall' = [op |-> "hash_final", ret |-> r.ret, length |-> length,
                           wrote |-> r.wrote, buffer |-> r.buffer, tmp |-> r.tmp,
                           handed |-> r.handed, bfail |-> r.bfail,
                           msg |-> mdhist.written, pre |-> hash.md.st,
                           again |-> (mdcall.op = "hash_final" /\ mdcall.ret = 0)]
             /\ mdhist' = [mdhist EXCEPT
                             !.written = IF r.ret = 0 THEN <<>> ELSE @,
                             !.fatal = @ \/ (r.ret # 0 /\ length <= hash.hash_len)]
    /\ UNCHANGED <<heap, hmac, cstate, kcall, bstate>>

HashDestroy ==
    /\ hash.p # NULL
    /\ heap' = crypt_hash_destroy(heap, hash)
    /\ hash' = NullHash
    /\ mdcall' = [NoCall EXCEPT !.op = "hash_destroy", !.again = FALSE]
    /\ mdhist' = NoHist
    /\ UNCHANGED <<hmac, cstate, kcall, bstate>>

HmacInit ==
    /\ hash.p = NULL /\ hmac.p = NULL
    /\ \E name \in Names, key \in Keys, okH \in BOOLEAN, okMd \in BOOLEAN,
          okInit \in BOOLEAN :
         \E r \in {crypt_hmac_init(heap, name, key, okH, okMd, okInit)} :
             /\ hmac' = r.ctx
             /\ heap' = r.heap
             /\ mdcall' = [NoCall EXCEPT !.op = "hmac_init", !.ret = r.ret,
                                         !.bfail = r.bfail, !.again = FALSE]
             /\ mdhist' = [NoHist EXCEPT !.key = key]
    /\ UNCHANGED <<hash, cstate, kcall, bstate>>

HmacWrite ==
    /\ hmac.p # NULL /\ ~mdhist.fatal
    /\ \E buffer \in Chunks, ok \in BOOLEAN :
         /\ Len(mdhist.written) + Len(buffer) <= MaxMsgLen
         /\ \E r \in {crypt_hmac_write(hmac, buffer, ok)} :
                /\ hmac' = r.ctx
                /\ mdcall' = [NoCall EXCEPT !.op = "hmac_write", !.ret = r.ret,
                                            !.length = Len(buffer), !.bfail = r.bfail,
                                            !.msg = mdhist.written, !.pre = hmac.md.st,
                                            !.again = FALSE]
                /\ mdhist' = [mdhist EXCEPT
                                !.written = IF r.ret = 0 THEN @ \o buffer ELSE @,
                                !.fatal = @ \/ r.ret # 0]
    /\ UNCHANGED <<heap, hash, cstate, kcall, bstate>>

HmacFinal ==
    /\ hmac.p # NULL /\ ~mdhist.fatal
    /\ \E length \in Lengths(hmac.hash_len), garbage \in Fill,
          okFinal \in BOOLEAN, lenSet \in BOOLEAN, okInit \in BOOLEAN :
         \E r \in {crypt_hmac_final(hmac, length, garbage, okFinal, lenSet, okInit)} :
             /\ hmac' = r.ctx
             /\ mdcall' = [op |-> "hmac_final", ret |-> r.ret, length |-> length,
                           wrote |-> r.wrote, buffer |-> r.buffer, tmp |-> r.tmp,
                           handed |-> r.handed, bfail |-> r.bfail,
                           msg |-> mdhist.written, pre |-> hmac.md.st,
                           again |-> (mdcall.op = "hmac_final" /\ mdcall.ret = 0)]
             /\ mdhist' = [mdhist EXCEPT
                             !.written = IF r.ret = 0 THEN <<>> ELSE @,
                             !.fatal = @ \/ (r.ret # 0 /\ length <= hmac.hash_len)]
    /\ UNCHANGED <<heap, hash, cstate, kcall, bstate>>

HmacDestroy ==
    /\ hmac.p # NULL
    /\ heap' = crypt_hmac_destroy(heap, hmac)
    /\ hmac' = NullHmac
    /\ mdcall' = [NoCall EXCEPT !.op = "hmac_destroy", !.again = FALSE]
    /\ mdhist' = NoHist
    /\ UNCHANGED <<hash, cstate, kcall, bstate>>

NextMd ==
    \/ HashInit \/ HashWrite \/ HashFinal \/ HashDestroy
    \/ HmacInit \/ HmacWrite \/ HmacFinal \/ HmacDestroy


(***************************************************************************)
(* The caller of the cipher engine.  It holds one session at a time and    *)
(* abandons a session once encrypt or decrypt reported a failure.  Of the  *)
(* outcomes the allocator and the library decide, only the first failure   *)
(* matters to a call, so each call draws the point of its first failure.   *)
(***************************************************************************)
CipherNames == {"aes", "twofish"}
CipherModes == {"xts", "cbc", "ecb", "ctr"}
KeyLengths == {16, 24, 32, 48, 64}
KeyVals == {0, 1}
InitFailures == {"none", "h", "enc", "dec", "enc+dec", "einit", "dinit", "epad", "dpad"}
CallFailures == {"none", "init", "update", "final"}

InitOutcome(fail) ==
    [h |-> fail # "h", enc |-> fail \notin {"enc", "enc+dec"},
     dec |-> fail \notin {"dec", "enc+dec"}, einit |-> fail # "einit",
     dinit |-> fail # "dinit", epad |-> fail # "epad", dpad |-> fail # "dpad"]

NoCipherCall ==
    [op |-> "none", ret |-> 0, name |-> "", mode |-> "", key_length |-> 0,
     fail |-> "none", in |-> <<>>, iv |-> 0, out |-> <<>>, fatal |-> FALSE]

NoSaved == [valid |-> FALSE, in |-> <<>>, iv |-> 0, out |-> <<>>, warm |-> FALSE]

CipherInit ==
    /\ cipher.p = NULL
    /\ \E name \in CipherNames, mode \in CipherModes, key_length \in KeyLengths,
          key \in KeyVals, fail \in InitFailures :
         \E r \in {crypt_cipher_init(heap, name, mode, key, key_length, InitOutcome(fail))} :
             /\ cipher' = r.ctx
             /\ heap' = r.heap
             /\ ccall' = [NoCipherCall EXCEPT !.op = "init", !.ret = r.ret, !.name = name,
                                              !.mode = mode, !.key_length = key_length,
                                              !.fail = fail]
             /\ saved' = NoSaved
    /\ UNCHANGED <<mdstate, kcall, bstate>>

CipherEncrypt ==
    /\ cipher.p # NULL /\ ~ccall.fatal
    /\ \E in \in Data, iv \in BlockVals, fail \in CallFailures :
         \E r \in {crypt_cipher_encrypt(cipher, in, iv, fail # "init", fail # "update",
                                        fail # "final")} :
             /\ cipher' = r.ctx
             /\ ccall' = [NoCipherCall EXCEPT !.op = "encrypt", !.ret = r.ret, !.in = in,
                                              !.iv = iv, !.out = r.out,
                                              !.fatal = r.ret # 0]
             /\ saved' = IF r.ret = 0
                         THEN [valid |-> TRUE, in |-> in, iv |-> iv, out |-> r.out,
                               warm |-> ccall.op \in {"encrypt", "decrypt"}]
                         ELSE saved
    /\ UNCHANGED <<heap, mdstate, kcall, bstate>>

CipherDecrypt ==
    /\ cipher.p # NULL /\ ~ccall.fatal
    /\ \E in \in Data, iv \in BlockVals, fail \in CallFailures :
         \E r \in {crypt_cipher_decrypt(cipher, in, iv, fail # "init", fail # "update",
                                        fail # "final")} :
             /\ cipher' = r.ctx
             /\ ccall' = [NoCipherCall EXCEPT !.op = "decrypt", !.ret = r.ret, !.in = in,
                                              !.iv = iv, !.out = r.out,
                                              !.fatal = r.ret # 0]
             /\ saved' = saved
    /\ UNCHANGED <<heap, mdstate, kcall, bstate>>

CipherDestroy ==
    /\ cipher.p # NULL
    /\ heap' = crypt_cipher_destroy(heap, cipher)
    /\ cipher' = NullCipher
    /\ ccall' = [NoCipherCall EXCEPT !.op = "destroy"]
    /\ saved' = NoSaved
    /\ UNCHANGED <<mdstate, kcall, bstate>>

NextCipher == CipherInit \/ CipherEncrypt \/ CipherDecrypt \/ CipherDestroy



(***************************************************************************)
(* crypt_pbkdf.  C strings that the code inspects character by character   *)
(* are sequences of characters.  The result names the derivation called    *)
(* and the arguments it was given; lib is the value the derivation         *)
(* returns.                                                                *)
(***************************************************************************)
NullStr == <<"NULL">>       \* a NULL char pointer
Prefix(str, n) == SubSeq(str, 1, Min(n, Len(str)))
strncmp(a, b, n) == IF Prefix(a, n) = Prefix(b, n) THEN 0 ELSE 1

(* A uint32_t is the pair of its 16 bit halves, [hi, lo]: the model checker's
   integers end at 2^31 - 1.  ToInt is the conversion (int)x to a 32 bit
   two's complement int; IntOfSize is (int)n for a size_t the model keeps
   below 2^31. *)
U32(hi, lo) == [hi |-> hi, lo |-> lo]
ToInt(x) ==
    IF x.hi >= 32768 THEN (x.hi - 65536) * 65536 + x.lo ELSE x.hi * 65536 + x.lo
IntOfSize(n) == n

NoArgs ==
    [kdf |-> NullStr, md |-> NULL, password_length |-> 0, salt_length |-> 0,
     key_length |-> 0, iterations |-> 0, memory |-> 0, parallel |-> 0]

crypt_pbkdf(kdf, hash_name, password_length, salt_length, key_length, iterations, memory, parallel, lib) ==
    LET hash_id == EVP_get_digestbyname(hash_name)
    IN  IF kdf = NullStr THEN [ret |-> -EINVAL, called |-> "none", args |-> NoArgs]
        ELSE IF strcmp(kdf, <<"p", "b", "k", "d", "f", "2">>) = 0
        THEN IF hash_id = NULL THEN [ret |-> -EINVAL, called |-> "none", args |-> NoArgs]
             ELSE [ret |-> IF lib = 0 THEN 0 ELSE -EINVAL,
                   called |-> "PKCS5_PBKDF2_HMAC",
                   args |-> [NoArgs EXCEPT !.md = hash_id,
                                           !.password_length = IntOfSize(password_length),
                                           !.salt_length = IntOfSize(salt_length),
                                           !.key_length = IntOfSize(key_length),
                                           !.iterations = ToInt(iterations)]]
        ELSE IF strncmp(kdf, <<"a", "r", "g", "o", "n", "2">>, 6) = 0
        THEN [ret |-> lib, called |-> "argon2",
              args |-> [kdf |-> kdf, md |-> NULL, password_length |-> password_length,
                        salt_length |-> salt_length, key_length |-> key_length,
                        iterations |-> iterations, memory |-> memory,
                        parallel |-> parallel]]
        ELSE [ret |-> -EINVAL, called |-> "none", args |-> NoArgs]

KdfFamilies ==
    {NullStr, <<>>, <<"p", "b", "k", "d", "f">>, <<"p", "b", "k", "d", "f", "2">>,
     <<"p", "b", "k", "d", "f", "2", "x">>, <<"a", "r", "g", "o", "n">>,
     <<"a", "r", "g", "o", "n", "2">>, <<"a", "r", "g", "o", "n", "2", "i">>,
     <<"a", "r", "g", "o", "n", "2", "i", "d">>, <<"s", "c", "r", "y", "p", "t">>,
     <<"x", "a", "r", "g", "o", "n", "2">>}
Iterations == {U32(0, 1), U32(0, 1000), U32(32767, 65535), U32(32768, 0), U32(65535, 65535)}
MemoryCosts == {0, 65536}
Parallelisms == {0, 4}
OutLengths == {20, 32}
LibReturns == {0, -EINVAL}

NoKdfCall ==
    [op |-> "none", kdf |-> NullStr, hash |-> "", password_length |-> 0,
     salt_length |-> 0, key_length |-> 0, iterations |-> U32(0, 0), memory |-> 0,
     parallel |-> 0, ret |-> 0, called |-> "none", args |-> NoArgs]

KdfInputs ==
    {[NoKdfCall EXCEPT !.op = "pending", !.kdf = k, !.hash = h, !.password_length = 8,
                       !.salt_length = 16, !.key_length = n, !.iterations = i,
                       !.memory = m, !.parallel = q] :
        k \in KdfFamilies, h \in Names, n \in OutLengths, i \in Iterations,
        m \in MemoryCosts, q \in Parallelisms}

Pbkdf ==
    /\ kcall.op = "pending"
    /\ \E lib \in LibReturns :
         \E r \in {crypt_pbkdf(kcall.kdf, kcall.hash, kcall.password_length,
                               kcall.salt_length, kcall.key_length, kcall.iterations,
                               kcall.memory, kcall.parallel, lib)} :
             kcall' = [kcall EXCEPT !.op = "pbkdf", !.ret = r.ret, !.called = r.called,
                                    !.args = r.args]
    /\ UNCHANGED <<heap, mdstate, cstate, bstate>>

(***************************************************************************)
(* Backend lifecycle.  crypt_backend_init reads the flag, runs the         *)
(* initialisation routine and stores the flag in three steps with nothing  *)
(* to keep other threads out; crypt_backend_destroy is a single store.     *)
(***************************************************************************)
Threads == 1..NThreads

InitEnter(t) ==
    /\ pc[t] = "idle"
    /\ pc' = [pc EXCEPT ![t] = "check"]
    /\ UNCHANGED <<crypto_backend_initialised, ran, heap, mdstate, cstate, kcall>>

InitCheck(t) ==
    /\ pc[t] = "check"
    /\ pc' = [pc EXCEPT ![t] = IF crypto_backend_initialised # 0 THEN "ret0" ELSE "init"]
    /\ UNCHANGED <<crypto_backend_initialised, ran, heap, mdstate, cstate, kcall>>

InitRun(t) ==
    /\ pc[t] = "init"
    /\ ran' = ran + 1
    /\ pc' = [pc EXCEPT ![t] = "set"]
    /\ UNCHANGED <<crypto_backend_initialised, heap, mdstate, cstate, kcall>>

InitSet(t) ==
    /\ pc[t] = "set"
    /\ crypto_backend_initialised' = 1
    /\ pc' = [pc EXCEPT ![t] = "ret0"]
    /\ UNCHANGED <<ran, heap, mdstate, cstate, kcall>>

InitReturn(t) ==
    /\ pc[t] = "ret0"
    /\ pc' = [pc EXCEPT ![t] = "idle"]
    /\ UNCHANGED <<crypto_backend_initialised, ran, heap, mdstate, cstate, kcall>>

crypt_backend_destroy(t) ==
    /\ pc[t] = "idle"
    /\ crypto_backend_initialised' = 0
    /\ ran' = 0
    /\ UNCHANGED <<pc, heap, mdstate, cstate, kcall>>

crypt_backend_init(t) == InitEnter(t) \/ InitCheck(t) \/ InitRun(t) \/ InitSet(t) \/ InitReturn(t)

NextBackend == \E t \in Threads : crypt_backend_init(t) \/ crypt_backend_destroy(t)

(***************************************************************************)
(* Initial state and the specifications: one per component, each over the  *)
(* whole state.                                                            *)
(***************************************************************************)
InitRest ==
    /\ heap = [live |-> {}, fault |-> FALSE]
    /\ hash = NullHash
    /\ hmac = NullHmac
    /\ mdcall = NoCall
    /\ mdhist = NoHist
    /\ cipher = NullCipher
    /\ ccall = NoCipherCall
    /\ saved = NoSaved
    /\ crypto_backend_initialised = 0
    /\ pc = [t \in Threads |-> "idle"]
    /\ ran = 0

Init == InitRest /\ kcall = NoKdfCall
InitKdf == InitRest /\ kcall \in KdfInputs

SpecMd == Init /\ [][NextMd]_vars
SpecCipher == Init /\ [][NextCipher]_vars
SpecKdf == InitKdf /\ [][Pbkdf]_vars
SpecBackend == Init /\ [][NextBackend]_vars


(***************************************************************************)
(* Properties of the hash and HMAC engines, checked under SpecMd.          *)
(***************************************************************************)
IsFinal == mdcall.op \in {"hash_final", "hmac_final"}
FinalLen == IF mdcall.op = "hash_final" THEN hash.hash_len ELSE hmac.hash_len
FullOutput ==
    IF mdcall.op = "hash_final" THEN Digest(hash.hash_id, mdcall.msg)
    ELSE Mac(hmac.hash_id, mdhist.key, mdcall.msg)

(* C1: every hash final that returns success returns the first length bytes of
   the digest of exactly the bytes written since the previous successful final
   (or since init) and leaves the context initialised with no input absorbed;
   a final directly after a successful final returns the digest of the empty
   string. *)
C1_HashFinalDigestAndRestart ==
    (mdcall.op = "hash_final" /\ mdcall.ret = 0) =>
        /\ mdcall.wrote
        /\ mdcall.buffer = SubSeq(Digest(hash.hash_id, mdcall.msg), 1, mdcall.length)
        /\ hash.md = [st |-> "ready", type |-> hash.hash_id, data |-> <<>>]
        /\ mdcall.again =>
             mdcall.buffer = SubSeq(Digest(hash.hash_id, <<>>), 1, mdcall.length)

C1_Witness ==
    /\ mdcall.op = "hash_final" /\ mdcall.ret = 0
    /\ mdcall.again /\ mdcall.length = hash.hash_len

(* C2: every HMAC final that returns success returns the MAC, under the key
   given at init, of exactly the bytes the writes since the previous successful
   final accepted. *)
C2_HmacFinalMacOfNewMessage ==
    (mdcall.op = "hmac_final" /\ mdcall.ret = 0) =>
        mdcall.buffer = SubSeq(Mac(hmac.hash_id, mdhist.key, mdcall.msg), 1, mdcall.length)

(* C7: when hash final or HMAC final returns after the library was handed the
   scratch array, on whichever exit path, the scratch array is all zero. *)
C7_ScratchZeroOnEveryExit == (IsFinal /\ mdcall.handed) => IsZero(mdcall.tmp)

(* C9: hash final and HMAC final with a length above the digest size fail
   with -EINVAL before the library or the caller's buffer is touched; with a
   length up to the digest size, on a working context, they succeed and return
   the first length bytes of the full digest. *)
C9_LengthCheckAndTruncation ==
    IsFinal =>
        /\ mdcall.length > FinalLen =>
             mdcall.ret = -EINVAL /\ ~mdcall.wrote /\ ~mdcall.handed
        /\ (mdcall.length <= FinalLen /\ mdcall.pre = "ready" /\ ~mdcall.bfail) =>
             /\ mdcall.ret = 0 /\ mdcall.wrote
             /\ mdcall.buffer = SubSeq(FullOutput, 1, mdcall.length)

C9_Witness ==
    /\ mdcall.op = "hmac_final" /\ hmac.hash_len = EVP_MAX_MD_SIZE
    /\ mdcall.length = hmac.hash_len + 1 /\ mdcall.ret = -EINVAL

(* C10: whenever a library call fails inside HMAC init, write or final, the
   call returns an error. *)
C10_HmacBackendFailureReported ==
    (mdcall.op \in {"hmac_init", "hmac_write", "hmac_final"} /\ mdcall.bfail) =>
        mdcall.ret # 0

(***************************************************************************)
(* Properties of the cipher engine, checked under SpecCipher.              *)
(***************************************************************************)
KnownModes == {"xts", "cbc", "ecb"}
Supported(mode, len) ==
    \/ mode = "xts" /\ len \in {32, 64}
    \/ mode \in {"cbc", "ecb"} /\ len \in {16, 24, 32}
AesBits(mode, len) == IF mode = "xts" THEN len * 4 ELSE len * 8

(* C3 as claimed: cipher init succeeds for "aes" with every supported (mode,
   key length) pair; for "aes" with any other mode or key length it fails with
   UnsupportedParameters (-EINVAL); for any other cipher name it fails with
   UnsupportedAlgorithm (-ENOTSUP). *)
C3_InitErrorsAsClaimed ==
    ccall.op = "init" =>
        /\ (ccall.name = "aes" /\ Supported(ccall.mode, ccall.key_length)
            /\ ccall.fail = "none") => ccall.ret = 0
        /\ (ccall.name = "aes" /\ ~Supported(ccall.mode, ccall.key_length)) =>
             ccall.ret = -EINVAL
        /\ ccall.name # "aes" => ccall.ret = -ENOTSUP

(* C3 as amended: cipher init succeeds, with the cipher type of the pair, for
   "aes" with every supported (mode, key length) pair when no allocation and no
   library call fails; for "aes" with a known mode and another key length it
   fails with -EINVAL; for "aes" with an unknown mode, as for any other cipher
   name, it fails with -ENOTSUP; a failed init returns no session. *)
C3_InitErrors ==
    ccall.op = "init" =>
        /\ (ccall.name = "aes" /\ Supported(ccall.mode, ccall.key_length)
            /\ ccall.fail = "none") =>
             /\ ccall.ret = 0 /\ cipher.p # NULL
             /\ cipher.enc.type = EVP_aes(AesBits(ccall.mode, ccall.key_length), ccall.mode)
             /\ cipher.dec.type = cipher.enc.type
        /\ (ccall.name = "aes" /\ ccall.mode \in KnownModes
            /\ ~Supported(ccall.mode, ccall.key_length)) => ccall.ret = -EINVAL
        /\ (ccall.name = "aes" /\ ccall.mode \notin KnownModes) => ccall.ret = -ENOTSUP
        /\ ccall.name # "aes" => ccall.ret = -ENOTSUP
        /\ ccall.ret # 0 => cipher.p = NULL

C3_Witness ==
    /\ ccall.op = "init" /\ ccall.name = "aes" /\ ccall.mode = "ctr"
    /\ ccall.key_length = 32 /\ ccall.ret = -ENOTSUP

(* C4: a successful decrypt of the output of the session's last successful
   encrypt, with the IV of that encrypt, returns the plaintext of that encrypt,
   whatever calls with other IVs the session served before. *)
C4_RoundTrip ==
    (/\ ccall.op = "decrypt" /\ ccall.ret = 0 /\ saved.valid
     /\ ccall.in = saved.out /\ ccall.iv = saved.iv) => ccall.out = saved.in

C4_Witness ==
    /\ ccall.op = "decrypt" /\ ccall.ret = 0 /\ saved.valid /\ saved.warm
    /\ ccall.in = saved.out /\ ccall.iv = saved.iv
    /\ cipher.dec.type.mode = "cbc" /\ Len(ccall.in) >= 2 /\ ccall.out # ccall.in

(* C5: when cipher init fails, no session is returned, nothing it allocated
   stays allocated and nothing was released twice. *)
C5_FailedInitTornDown ==
    (ccall.op = "init" /\ ccall.ret # 0) =>
        cipher.p = NULL /\ heap.live = {} /\ ~heap.fault

C5_Witness ==
    /\ ccall.op = "init" /\ ccall.fail = "dec" /\ ccall.ret = -EINVAL
    /\ ccall.name = "aes" /\ Supported(ccall.mode, ccall.key_length)
    /\ heap.live = {}

(***************************************************************************)
(* Property of crypt_pbkdf, checked under SpecKdf.                         *)
(***************************************************************************)
IsArgon2(kdf) == kdf # NullStr /\ Len(kdf) >= 6 /\ SubSeq(kdf, 1, 6) = <<"a", "r", "g", "o", "n", "2">>
IsPbkdf2(kdf) == kdf = <<"p", "b", "k", "d", "f", "2">>

(* C8: family "pbkdf2" with an unknown hash fails without a derivation, and
   otherwise runs PBKDF2 with that hash, the given lengths and the given
   iteration count; a family starting with "argon2" runs argon2 with family,
   lengths, iterations, memory and parallelism unchanged; any other or an
   absent family fails with -EINVAL without a derivation. *)
C8_KdfDispatch ==
    kcall.op = "pbkdf" =>
        IF IsPbkdf2(kcall.kdf)
        THEN IF kcall.hash \notin DigestNames
             THEN kcall.ret = -EINVAL /\ kcall.called = "none"
             ELSE /\ kcall.called = "PKCS5_PBKDF2_HMAC"
                  /\ kcall.args.md = kcall.hash
                  /\ kcall.args.key_length = kcall.key_length
                  /\ kcall.iterations.hi < 32768
                  /\ kcall.args.iterations = kcall.iterations.hi * 65536 + kcall.iterations.lo
        ELSE IF IsArgon2(kcall.kdf)
        THEN /\ kcall.called = "argon2"
             /\ kcall.args = [kdf |-> kcall.kdf, md |-> NULL,
                              password_length |-> kcall.password_length,
                              salt_length |-> kcall.salt_length,
                              key_length |-> kcall.key_length,
                              iterations |-> kcall.iterations,
                              memory |-> kcall.memory, parallel |-> kcall.parallel]
        ELSE kcall.ret = -EINVAL /\ kcall.called = "none"

(* The same for the iteration counts an int holds. *)
KdfDispatchInIntRange == kcall.iterations.hi < 32768 => C8_KdfDispatch

(***************************************************************************)
(* Property of the backend lifecycle, checked under SpecBackend.           *)
(***************************************************************************)
(* C6: between two destroys the initialisation routine runs at most once,
   however the init calls of the threads interleave. *)
C6_InitRunsAtMostOnce == ran <= 1

=============================================================================
